---- MODULE Spec2Model ----
(***************************************************************************)
(* Finite algebras (Magma, Semigroup, Monoid, Group, Ring, Field) built    *)
(* from Cayley tables: src/src/finite_algebras.py.                         *)
(*                                                                         *)
(* Python lists are modelled as functions on 0..(n-1) so that the index    *)
(* arithmetic of the source is kept.  A table is a function               *)
(* [0..n-1 -> [0..n-1 -> Int]], an element list a function                 *)
(* [0..n-1 -> STRING].  The class CayleyTable is imported by the source    *)
(* from cayley_table.py; its operations are modelled from the design       *)
(* document (section 4.1).                                                 *)
(***************************************************************************)
EXTENDS Integers, Sequences, FiniteSets, TLC

(***************************************************************************)
(* Bounds of the explored inputs.                                          *)
(***************************************************************************)
\* largest order for which every table is enumerated
MaxFullOrder == 2
\* largest order for which the one-table inputs are enumerated
MaxOrder == 3
\* largest order for which the operands of operator calls are enumerated
MaxOperandOrder == 2
\* largest order of the right-hand operand of a direct product
MaxMulOrder == 2
\* largest order for which caller-supplied name lists are enumerated
MaxNameOrder == 3
\* largest order for which the algebras whose subsets are closed are enumerated
MaxSubjectOrder == 3
\* largest order for which the algebras compared by isomorphic are enumerated
MaxIsoOrder == 2
\* largest order of the cyclic groups compared and partitioned
MaxCyclicOrder == 4
\* longest list that is partitioned
MaxListLen == 3
\* largest order for which the two-table (ring) inputs are enumerated
MaxRingOrder == 2
\* largest order passed to the generators
MaxGenOrder == 5
\* largest number of arguments passed to an operator
MaxArgs == 3
\* names and table dimensions of the calls whose table and element list disagree
MaxShapeOrder == 3
\* largest order of the enumerated tables on which derived operations are called
MaxDerivedOrder == 3
\* largest number of arguments passed to Ring.mult
MaxMultArgs == 2
\* largest order for which every list of names is handed to reorder_elements
MaxReorderOrder == 3
\* largest order of the enumerated tables between which mappings are sought
MaxMapOrder == 2

(***************************************************************************)
(* Python values.                                                          *)
(***************************************************************************)
\* None, where an element name is expected
None == "None"
\* None, where a table index is expected
NoIndex == -1
\* an absent table2
NoTable == <<>>
\* the exceptions raised by the source, with their messages
ValueError == "ValueError"
IndexError == "IndexError"
KeyError == "KeyError"
TypeError == "TypeError"
RecursionError == "RecursionError"
DuplicateNames == "ValueError: Duplicate element names"
NotAssociative == "ValueError: CHECK INPUTS: Table does not support associativity"
NoIdentity == "ValueError: CHECK INPUTS: A monoid must have an identity element"
InsufficientInverses == "ValueError: CHECK INPUTS: Table has insufficient inverses"
NotCommutative == "ValueError: CHECK INPUTS: The ring addition operation is not commutative"
MultNotAssociative == "ValueError: CHECK INPUTS: The ring multiplication operation is not associative"
NotDistributive == "ValueError: CHECK INPUTS: Multiplication does not distribute over addition"
\* the exception of CayleyTable.__init__
ShapeError == "ShapeError"
\* "no exception"
NoError == "NoError"
\* "no instance"
NoAlg == [kind |-> "NoAlg"]

Min(S) == CHOOSE x \in S : \A y \in S : x <= y
Max(S) == CHOOSE x \in S : \A y \in S : x >= y
Range(f) == {f[i] : i \in DOMAIN f}
len(l) == Cardinality(DOMAIN l)
\* range(n)
Idx(n) == 0..(n - 1)
\* list.index(x): the first position of x, or ValueError
index(l, x) == IF x \in Range(l) THEN Min({i \in DOMAIN l : l[i] = x}) ELSE NoIndex

(***************************************************************************)
(* CayleyTable (cayley_table.py, design document section 4.1).             *)
(***************************************************************************)
\* CayleyTable.__init__: square, every cell in [0, n)
CayleyTableOK(t) ==
    /\ t # <<>>
    /\ \A i \in DOMAIN t :
          /\ DOMAIN t[i] = DOMAIN t
          /\ \A j \in DOMAIN t : t[i][j] \in 0..(len(t) - 1)

is_associative(t) ==
    \A a \in DOMAIN t : \A b \in DOMAIN t : \A c \in DOMAIN t :
        t[t[a][b]][c] = t[a][t[b][c]]

is_commutative(t) ==
    \A a \in DOMAIN t : \A b \in DOMAIN t : t[a][b] = t[b][a]

\* the first index that passes the two-sided identity test, or None
identity(t) ==
    LET ids == {e \in DOMAIN t : \A x \in DOMAIN t : t[e][x] = x /\ t[x][e] = x}
    IN  IF ids = {} THEN NoIndex ELSE Min(ids)

\* an identity exists and appears exactly once in every row
has_inverses(t) ==
    LET e == identity(t)
    IN  /\ e # NoIndex
        /\ \A r \in DOMAIN t : Cardinality({c \in DOMAIN t : t[r][c] = e}) = 1

\* t2 distributes over t1 on the left and on the right
distributes_over(t2, t1) ==
    \A a \in DOMAIN t2 : \A b \in DOMAIN t2 : \A c \in DOMAIN t2 :
        /\ t2[a][t1[b][c]] = t1[t2[a][b]][t2[a][c]]
        /\ t2[t1[b][c]][a] = t1[t2[b][a]][t2[c][a]]

(***************************************************************************)
(* Results of a call: an instance, or an exception and no instance.        *)
(***************************************************************************)
Return(a) == [alg |-> a, err |-> NoError]
Raise(e) == [alg |-> NoAlg, err |-> e]

\* make_cayley_table: the table as a CayleyTable (index tables only)
make_cayley_table(table, elements) == table

get_duplicates(lst) ==
    {x \in Range(lst) : Cardinality({i \in DOMAIN lst : lst[i] = x}) > 1}

(***************************************************************************)
(* Operator: the callable bound to (elements, identity, table).  A raised  *)
(* exception is modelled by its name in place of the returned element; it  *)
(* is no element name, so a later lookup of it raises again.               *)
(***************************************************************************)
\* Operator.__binary_operation: name -> index -> table cell -> name
binary_operation(elements, table, elem1, elem2) ==
    LET row == index(elements, elem1)
        col == index(elements, elem2)
    IN  IF row = NoIndex \/ col = NoIndex THEN ValueError
        ELSE IF row \notin DOMAIN table \/ col \notin DOMAIN table THEN IndexError
        ELSE elements[table[row][col]]

\* variant: the fold groups to the right
RECURSIVE reduce_right(_, _, _, _)
reduce_right(elements, table, acc, rest) ==
    IF rest = <<>> THEN acc
    ELSE binary_operation(elements, table, acc,
                          reduce_right(elements, table, Head(rest), Tail(rest)))

\* functools.reduce(lambda a, b: self.__op(a, b), args): acc holds the value
\* folded so far, rest the arguments not yet consumed
RECURSIVE reduce(_, _, _, _)
reduce(elements, table, acc, rest) ==
    IF rest = <<>> THEN acc
    ELSE reduce(elements, table, binary_operation(elements, table, acc, Head(rest)), Tail(rest))

\* Operator.__op
Operator(elements, ident, table, args) ==
    IF Len(args) = 0 THEN ident
    ELSE IF Len(args) = 1
         THEN IF args[1] \in Range(elements) THEN args[1] ELSE ValueError
    ELSE IF Len(args) = 2 THEN binary_operation(elements, table, args[1], args[2])
    ELSE reduce(elements, table, args[1], Tail(args))

\* Magma.op, the Operator bound at construction
op(a, args) == Operator(a.elements, a.identity, a.table, args)

GroupKinds == {"Group", "Ring", "Field"}
MonoidKinds == {"Monoid"} \cup GroupKinds
Kinds == {"Magma", "Semigroup"} \cup MonoidKinds

\* Group.inv: the lookup in the dictionary built by the constructor;
\* FiniteAlgebra.inv below Group: the dictionary of FiniteAlgebra is empty
inv(a, element) ==
    IF a.kind \in GroupKinds
    THEN IF element \in DOMAIN a.inverses THEN a.inverses[element] ELSE KeyError
    ELSE None

\* FiniteAlgebra.__eq__: same elements in the same order, same tables
eq(a, b) == a.elements = b.elements /\ a.table = b.table

(***************************************************************************)
(* The class hierarchy.  An instance is a record; the fields a class does  *)
(* not have hold their "absent" value.                                     *)
(***************************************************************************)
NoInverses == [k \in {} |-> None]
\* None, where the order of an element is expected
NoOrder == 0
NoOrders == [k \in {} |-> NoOrder]

\* variant: the identity is taken to be the first element
Magma_identity_first(name, description, elements, table) ==
    IF ~CayleyTableOK(table) THEN Raise(ShapeError)
    ELSE LET t == make_cayley_table(table, elements)
             id_index == identity(t)
         IN  IF id_index # NoIndex /\ id_index \notin DOMAIN elements
             THEN Raise(IndexError)
             ELSE Return([kind |-> "Magma",
                          name |-> name,
                          description |-> description,
                          elements |-> elements,
                          table |-> t,
                          identity |-> IF id_index # NoIndex THEN elements[0] ELSE None,
                          inverses |-> NoInverses,
                          element_orders |-> NoOrders,
                          table2 |-> NoTable,
                          mult_identity |-> NoIndex])

\* FiniteAlgebra.__init__ followed by Magma.__init__
Magma(name, description, elements, table) ==
    IF ~CayleyTableOK(table) THEN Raise(ShapeError)
    ELSE LET t == make_cayley_table(table, elements)
             id_index == identity(t)
         IN  IF id_index # NoIndex /\ id_index \notin DOMAIN elements
             THEN Raise(IndexError)
             ELSE Return([kind |-> "Magma",
                          name |-> name,
                          description |-> description,
                          elements |-> elements,
                          table |-> t,
                          identity |-> IF id_index # NoIndex THEN elements[id_index] ELSE None,
                          inverses |-> NoInverses,
                          element_orders |-> NoOrders,
                          table2 |-> NoTable,
                          mult_identity |-> NoIndex])

\* Semigroup.__init__ after super().__init__ has returned r
Semigroup_init(r, check_inputs) ==
    IF r.err # NoError THEN r
    ELSE IF check_inputs /\ ~is_associative(r.alg.table) THEN Raise(NotAssociative)
    ELSE Return([r.alg EXCEPT !.kind = "Semigroup"])

Semigroup(name, description, elements, table, check_inputs) ==
    Semigroup_init(Magma(name, description, elements, table), check_inputs)

\* variant: the identity is not checked
Monoid_init_identity_unchecked(r, check_inputs) ==
    IF r.err # NoError THEN r
    ELSE Return([r.alg EXCEPT !.kind = "Monoid",
                              !.element_orders = [elem \in Range(r.alg.elements) |-> NoOrder]])

\* Monoid.__init__ after super().__init__ has returned r
Monoid_init(r, check_inputs) ==
    IF r.err # NoError THEN r
    ELSE IF check_inputs /\ r.alg.identity = None THEN Raise(NoIdentity)
    ELSE Return([r.alg EXCEPT !.kind = "Monoid",
                              !.element_orders = [elem \in Range(r.alg.elements) |-> NoOrder]])

Monoid(name, description, elements, table, check_inputs) ==
    Monoid_init(Semigroup(name, description, elements, table, check_inputs), check_inputs)

\* Group.__create_inverse_lookup_dict: np.where lists the cells holding the
\* identity in row-major order; a later (row, col) pair overrides an earlier
\* one with the same key
create_inverse_lookup_dict(elements, t) ==
    LET e == identity(t)
        rows == {r \in DOMAIN t : \E c \in DOMAIN t : t[r][c] = e}
        keys == {elements[r] : r \in rows}
        lastRow(k) == Max({r \in rows : elements[r] = k})
        lastCol(r) == Max({c \in DOMAIN t : t[r][c] = e})
    IN  [k \in keys |-> elements[lastCol(lastRow(k))]]

\* Group.__init__ after super().__init__ has returned r
Group_init(r, check_inputs) ==
    IF r.err # NoError THEN r
    ELSE IF check_inputs /\ ~has_inverses(r.alg.table) THEN Raise(InsufficientInverses)
    ELSE IF \E i \in DOMAIN r.alg.table : \E j \in DOMAIN r.alg.table :
                /\ r.alg.table[i][j] = identity(r.alg.table)
                /\ ~({i, j} \subseteq DOMAIN r.alg.elements)
         THEN Raise(IndexError)
    ELSE Return([r.alg EXCEPT !.kind = "Group",
                              !.inverses = create_inverse_lookup_dict(r.alg.elements, r.alg.table)])

Group(name, description, elements, table, check_inputs) ==
    Group_init(Monoid(name, description, elements, table, check_inputs), check_inputs)

\* variant: distributivity is not checked
Ring_init_distributivity_unchecked(r, table2, check_inputs) ==
    IF r.err # NoError THEN r
    ELSE IF ~CayleyTableOK(table2) THEN Raise(ShapeError)
    ELSE IF check_inputs /\ ~is_commutative(r.alg.table) THEN Raise(NotCommutative)
    ELSE IF check_inputs /\ ~is_associative(make_cayley_table(table2, r.alg.elements))
         THEN Raise(MultNotAssociative)
    ELSE Return([r.alg EXCEPT !.kind = "Ring",
                              !.table2 = make_cayley_table(table2, r.alg.elements),
                              !.mult_identity = identity(make_cayley_table(table2, r.alg.elements))])

\* Ring.__init__ after super().__init__ has returned r
Ring_init(r, table2, check_inputs) ==
    IF r.err # NoError THEN r
    ELSE IF ~CayleyTableOK(table2) THEN Raise(ShapeError)
    ELSE IF check_inputs /\ ~is_commutative(r.alg.table) THEN Raise(NotCommutative)
    ELSE IF check_inputs /\ ~is_associative(make_cayley_table(table2, r.alg.elements))
         THEN Raise(MultNotAssociative)
    ELSE IF check_inputs /\ ~distributes_over(make_cayley_table(table2, r.alg.elements), r.alg.table)
         THEN Raise(NotDistributive)
    ELSE Return([r.alg EXCEPT !.kind = "Ring",
                              !.table2 = make_cayley_table(table2, r.alg.elements),
                              !.mult_identity = identity(make_cayley_table(table2, r.alg.elements))])

Ring(name, description, elements, table, table2, check_inputs) ==
    Ring_init(Group(name, description, elements, table, check_inputs), table2, check_inputs)

\* Field.__init__ after super().__init__ has returned r: "if check_inputs: pass"
Field_init(r, check_inputs) ==
    IF r.err # NoError THEN r
    ELSE Return([r.alg EXCEPT !.kind = "Field"])

Field(name, description, elements, table, table2, check_inputs) ==
    Field_init(Ring(name, description, elements, table, table2, check_inputs), check_inputs)

\* the stub of the source: always False
is_field(add_id, elements, mult_table) == FALSE

\* variant: the inverses rung is missing
ladder_without_inverses_rung(name, desc, elems, table, table2, is_assoc, ident, inverses, is_assoc2) ==
    IF is_assoc
    THEN IF ident # NoIndex
         THEN IF table2 # NoTable /\ is_assoc2
              THEN IF is_field(ident, elems, table2)
                   THEN Field(name, desc, elems, table, table2, FALSE)
                   ELSE Ring(name, desc, elems, table, table2, FALSE)
              ELSE Group(name, desc, elems, table, FALSE)
         ELSE Semigroup(name, desc, elems, table, FALSE)
    ELSE Magma(name, desc, elems, table)

\* make_finite_algebra, the decision ladder: the most specific class whose
\* axioms were found to hold, built without re-checking
ladder(name, desc, elems, table, table2, is_assoc, ident, inverses, is_assoc2) ==
    IF is_assoc
    THEN IF ident # NoIndex
         THEN IF inverses
              THEN IF table2 # NoTable /\ is_assoc2
                   THEN IF is_field(ident, elems, table2)
                        THEN Field(name, desc, elems, table, table2, FALSE)
                        ELSE Ring(name, desc, elems, table, table2, FALSE)
                   ELSE Group(name, desc, elems, table, FALSE)
              ELSE Monoid(name, desc, elems, table, FALSE)
         ELSE Semigroup(name, desc, elems, table, FALSE)
    ELSE Magma(name, desc, elems, table)

(***************************************************************************)
(* make_finite_algebra: args is the dictionary form of the arguments;      *)
(* args.table2 = NoTable when the key 'table2' is absent.                  *)
(***************************************************************************)
make_finite_algebra(args) ==
    LET name == args.name
        desc == args.description
        elems == args.elements
        tbl == args.table
    IN  IF get_duplicates(elems) # {} THEN Raise(DuplicateNames)
        ELSE IF ~CayleyTableOK(tbl) THEN Raise(ShapeError)
        ELSE IF args.table2 # NoTable /\ ~CayleyTableOK(args.table2) THEN Raise(ShapeError)
        ELSE LET table == make_cayley_table(tbl, elems)
                 table2 == IF args.table2 # NoTable
                           THEN make_cayley_table(args.table2, elems) ELSE NoTable
                 is_assoc2 == IF args.table2 # NoTable THEN is_associative(table2) ELSE FALSE
                 is_assoc == is_associative(table)
                 ident == identity(table)
                 inverses == IF ident # NoIndex THEN has_inverses(table) ELSE FALSE
             IN  ladder(name, desc, elems, table, table2, is_assoc, ident, inverses, is_assoc2)

(***************************************************************************)
(* Magma.__mul__: the direct product.                                      *)
(***************************************************************************)
\* variant: the first component fastest
product_first_fastest(l1, l2) ==
    [k \in 0..(len(l1) * len(l2) - 1) |-> <<l1[k % len(l1)], l2[k \div len(l1)]>>]

\* list(itertools.product(l1, l2)): the pairs, the second component fastest
product(l1, l2) ==
    [k \in 0..(len(l1) * len(l2) - 1) |-> <<l1[k \div len(l2)], l2[k % len(l2)]>>]

\* the default delimiter of direct product element names
dp_delimiter == ":"

mul(self, other) ==
    LET dp_element_names == product(self.elements, other.elements)
        cell(a, b) == index(dp_element_names,
                            <<op(self, <<a[1], b[1]>>), op(other, <<a[2], b[2]>>)>>)
        dp_mult_table == [i \in DOMAIN dp_element_names |->
                            [j \in DOMAIN dp_element_names |->
                                cell(dp_element_names[i], dp_element_names[j])]]
    IN  IF \E i \in DOMAIN dp_element_names : \E j \in DOMAIN dp_element_names :
               dp_mult_table[i][j] = NoIndex
        THEN Raise(ValueError)
        ELSE make_finite_algebra(
                 [name |-> self.name \o "_x_" \o other.name,
                  description |-> "Direct product of " \o self.name \o " & " \o other.name,
                  elements |-> [k \in DOMAIN dp_element_names |->
                                   dp_element_names[k][1] \o dp_delimiter \o dp_element_names[k][2]],
                  table |-> dp_mult_table,
                  table2 |-> NoTable])

(***************************************************************************)
(* Magma.closure and Magma.closed_subsets_of_elements.  A call returns     *)
(* [err, value]: the value, or the exception that ended it.                *)
(***************************************************************************)
Returns(v) == [err |-> NoError, value |-> v]
Raises(e) == [err |-> e, value |-> {}]

\* the first loop of closure: result.add(self.inv(elem)) when the table
\* has inverses
closure_inverses(a, subset) ==
    IF has_inverses(a.table) THEN subset \cup {inv(a, elem) : elem \in subset} ELSE subset

\* closure(subset_of_elements), n = len(subset_of_elements); the operands
\* of the second loop are itertools.product's copy of result.  (Were both a
\* ValueError and an IndexError possible, the iteration order of the set
\* would decide which is raised; no input here has both.)
RECURSIVE closure(_, _, _)
closure_grow(a, result, products, n) ==
    IF ValueError \in products THEN Raises(ValueError)
    ELSE IF IndexError \in products THEN Raises(IndexError)
    ELSE IF Cardinality(result \cup products) > n
         THEN closure(a, result \cup products, Cardinality(result \cup products))
    ELSE Returns(result \cup products)

closure_products(a, result, n) ==
    IF KeyError \in result THEN Raises(KeyError)
    ELSE closure_grow(a, result, {op(a, <<x, y>>) : x \in result, y \in result}, n)

closure(a, subset, n) == closure_products(a, closure_inverses(a, subset), n)

\* itertools.combinations(all_elements, i), each as the set of its names
combinations(elements, i) ==
    {{elements[p] : p \in P} : P \in {Q \in SUBSET DOMAIN elements : Cardinality(Q) = i}}

\* range(range_low, n - 1)
closed_sizes(n, non_trivial) == (IF non_trivial THEN 2 ELSE 1)..(n - 2)

closed_collect(n, closures) ==
    IF \E c \in closures : c.err # NoError
    THEN Raises((CHOOSE c \in closures : c.err # NoError).err)
    ELSE Returns({c.value : c \in {d \in closures : Cardinality(d.value) < n}})

\* closed_subsets_of_elements: the set of the closures with fewer than n
\* elements
closed_subsets_of_elements(a, non_trivial) ==
    closed_collect(len(a.elements),
                   UNION {{closure(a, combo, i) : combo \in combinations(a.elements, i)}
                             : i \in closed_sizes(len(a.elements), non_trivial)})

(***************************************************************************)
(* Magma.isomorphic.  The call returns a mapping or False.                 *)
(***************************************************************************)
\* False, as isomorphic returns it
NoMapping == [found |-> FALSE]
Mapping(mp) == [found |-> TRUE, mapping |-> mp]

\* itertools.permutations, as permutations of the positions
permutations(n) ==
    {p \in [Idx(n) -> Idx(n)] : \A i \in Idx(n) : \A j \in Idx(n) : p[i] = p[j] => i = j}

\* the order in which itertools.permutations yields
lexicographic(p, q) ==
    \E k \in DOMAIN p : p[k] < q[k] /\ \A j \in DOMAIN p : j < k => p[j] = q[j]

\* dict(zip(self.elements, perm)): a later pair overrides an earlier one
\* with the same key
element_mapping(self, other, p) ==
    [x \in Range(self.elements) |->
        other.elements[p[Max({i \in DOMAIN self.elements : self.elements[i] = x})]]]

\* variant: only the products of an element with itself are compared
isomorphic_mapping_diagonal(self, other, mapping) ==
    \A x \in Range(self.elements) :
        mapping[op(self, <<x, x>>)] = op(other, <<mapping[x], mapping[x]>>)

\* Magma.__isomorphic_mapping
isomorphic_mapping(self, other, mapping) ==
    \A x \in Range(self.elements) : \A y \in Range(self.elements) :
        mapping[op(self, <<x, y>>)] = op(other, <<mapping[x], mapping[y]>>)

\* variant: the last mapping that passes
last_mapping(self, other, passing) ==
    IF passing = {} THEN NoMapping
    ELSE Mapping(element_mapping(self, other,
                     CHOOSE p \in passing : \A q \in passing : q = p \/ lexicographic(q, p)))

\* the loop over maps: the first mapping that passes
first_mapping(self, other, passing) ==
    IF passing = {} THEN NoMapping
    ELSE Mapping(element_mapping(self, other,
                     CHOOSE p \in passing : \A q \in passing : q = p \/ lexicographic(p, q)))

isomorphic(self, other) ==
    IF len(self.elements) = len(other.elements)
    THEN first_mapping(self, other,
             {p \in permutations(len(other.elements)) :
                 isomorphic_mapping(self, other, element_mapping(self, other, p))})
    ELSE NoMapping

\* the mappings the loop of isomorphic has tested when it returns: those up
\* to the first that passes, or all of them
tested_up_to(self, other, passing) ==
    {element_mapping(self, other, p) :
        p \in {q \in permutations(len(other.elements)) :
                  \A r \in passing : r = q \/ lexicographic(q, r)}}

tested_mappings(self, other) ==
    IF len(self.elements) = len(other.elements)
    THEN tested_up_to(self, other,
             {p \in permutations(len(other.elements)) :
                 isomorphic_mapping(self, other, element_mapping(self, other, p))})
    ELSE {}

(***************************************************************************)
(* partition_into_isomorphic_lists: lists of algebras are sequences.       *)
(***************************************************************************)
\* iso_and_not_iso: a mapping is true, False is not
iso_to_grp(gp, gps) == SelectSeq(gps, LAMBDA g : isomorphic(gp, g).found)
not_iso_to_grp(gp, gps) == SelectSeq(gps, LAMBDA g : ~isomorphic(gp, g).found)

\* variant: the algebras isomorphic to the first one stay in the remainder
RECURSIVE aux_keep_rest(_, _)
aux_keep_rest(result, remainder) ==
    IF Len(remainder) = 0 THEN result
    ELSE aux_keep_rest(Append(result, <<Head(remainder)>>),
                       Tail(remainder))

RECURSIVE aux(_, _)
aux(result, remainder) ==
    IF Len(remainder) = 0 THEN result
    ELSE aux(Append(result, iso_to_grp(remainder[1], remainder)),
             not_iso_to_grp(remainder[1], remainder))

partition_into_isomorphic_lists(list_of_groups) == aux(<<>>, list_of_groups)

(***************************************************************************)
(* The generators.                                                         *)
(***************************************************************************)
\* generate_cyclic_group(order): the arguments handed to make_finite_algebra
cyclic_group_args(order) ==
    [name |-> "Z" \o ToString(order),
     description |-> "Autogenerated cyclic Group of order " \o ToString(order),
     elements |-> [i \in Idx(IF order > 2 THEN order ELSE 2) |->
                      IF i = 0 THEN "e" ELSE IF i = 1 THEN "a" ELSE "a^" \o ToString(i)],
     table |-> [a \in Idx(order) |-> [b \in Idx(order) |-> (a + b) % order]],
     table2 |-> NoTable]

generate_cyclic_group(order) == make_finite_algebra(cyclic_group_args(order))

\* powerset(iterable) of range(n): by size, then in the order of
\* itertools.combinations
powerset_before(A, B) ==
    \/ Cardinality(A) < Cardinality(B)
    \/ /\ Cardinality(A) = Cardinality(B)
       /\ A # B
       /\ Min((A \ B) \cup (B \ A)) \in A

powerset(n) ==
    [k \in Idx(Cardinality(SUBSET Idx(n))) |->
        CHOOSE A \in SUBSET Idx(n) :
            Cardinality({B \in SUBSET Idx(n) : powerset_before(B, A)}) = k]

\* str(elem) of a set of small integers; "{}" for the empty one
RECURSIVE set_items(_)
set_items(A) ==
    IF Cardinality(A) = 1 THEN ToString(Min(A))
    ELSE ToString(Min(A)) \o ", " \o set_items(A \ {Min(A)})

set_str(A) == IF A = {} THEN "{}" ELSE "{" \o set_items(A) \o "}"

\* variant: union in place of symmetric difference
powerset_union_args(n) ==
    [name |-> "PS" \o ToString(n),
     description |-> "Autogenerated Group on the powerset of " \o ToString(n)
                     \o " elements, with symmetric difference operator",
     elements |-> [k \in DOMAIN powerset(n) |-> set_str(powerset(n)[k])],
     table |-> [i \in DOMAIN powerset(n) |-> [j \in DOMAIN powerset(n) |->
                  index(powerset(n), powerset(n)[i] \cup powerset(n)[j])]],
     table2 |-> NoTable]

\* generate_powerset_group(n): the arguments handed to make_finite_algebra
powerset_group_args(n) ==
    [name |-> "PS" \o ToString(n),
     description |-> "Autogenerated Group on the powerset of " \o ToString(n)
                     \o " elements, with symmetric difference operator",
     elements |-> [k \in DOMAIN powerset(n) |-> set_str(powerset(n)[k])],
     table |-> [i \in DOMAIN powerset(n) |-> [j \in DOMAIN powerset(n) |->
                  index(powerset(n),
                        (powerset(n)[i] \ powerset(n)[j]) \cup (powerset(n)[j] \ powerset(n)[i]))]],
     table2 |-> NoTable]

generate_powerset_group(n) == make_finite_algebra(powerset_group_args(n))

(***************************************************************************)
(* Ring.zero_divisors and FiniteAlgebra.to_dict.                           *)
(***************************************************************************)
\* delete_row_col(table, row, col) with row = col: the index, in the table,
\* of the row or column that index r of the shortened table holds
delete_row_col(r, zero_index) == IF r < zero_index THEN r ELSE r + 1

\* np.where(mult_table_without_add_id == zero_index): the (row, column)
\* pairs of the shortened table
where_zero(a, zero_index) ==
    {rc \in Idx(len(a.elements) - 1) \X Idx(len(a.elements) - 1) :
        a.table2[delete_row_col(rc[1], zero_index)][delete_row_col(rc[2], zero_index)]
            = zero_index}

\* the names returned: self.elements[index + 1] for index in a | b
zero_divisors_names(a, hits) ==
    {a.elements[i + 1] : i \in {rc[1] : rc \in hits} \cup {rc[2] : rc \in hits}}

zero_divisors(a) == zero_divisors_names(a, where_zero(a, index(a.elements, a.identity)))

\* to_dict(): the dictionary has no key 'table2'; tolist() keeps the cells
to_dict(a) ==
    [name |-> a.name,
     description |-> a.description,
     elements |-> a.elements,
     table |-> [i \in DOMAIN a.table |-> [j \in DOMAIN a.table[i] |-> a.table[i][j]]],
     table2 |-> NoTable]

(***************************************************************************)
(* Ring: the multiplicative identity and the multiplication operator.      *)
(* Ring.__init__ keeps what CayleyTable.identity() returns, a table index. *)
(***************************************************************************)
\* a Python int where an element name is expected; no element name equals it
PyInt(i) == "int " \o ToString(i)

\* Ring.mult_identity
mult_identity(a) ==
    IF a.mult_identity = NoIndex THEN None ELSE PyInt(a.mult_identity)

\* Ring.one
one(a) == mult_identity(a)

\* Ring.has_mult_identity
has_mult_identity(a) == mult_identity(a) # None

\* Ring.mult, the Operator bound at construction to the second table
mult(a, args) == Operator(a.elements, mult_identity(a), a.table2, args)

(***************************************************************************)
(* Magma.reorder_elements.                                                 *)
(***************************************************************************)
\* self.__class__(name, description, elements, table): the constructor of
\* the instance's own class, called with four positional arguments; Ring
\* and Field require table2 as the fifth
construct_same_class(kind, name, description, elements, table) ==
    IF kind = "Magma" THEN Magma(name, description, elements, table)
    ELSE IF kind = "Semigroup" THEN Semigroup(name, description, elements, table, TRUE)
    ELSE IF kind = "Monoid" THEN Monoid(name, description, elements, table, TRUE)
    ELSE IF kind = "Group" THEN Group(name, description, elements, table, TRUE)
    ELSE Raise(TypeError)

\* the cell new_table[row, col], or the exception of op or of list.index
reorder_cell(a, reordered_elements, row, col) ==
    index(reordered_elements, op(a, <<reordered_elements[row], reordered_elements[col]>>))

reorder_elements(a, reordered_elements) ==
    IF len(a.elements) # len(reordered_elements) THEN Raise(ValueError)
    ELSE IF \E row \in DOMAIN reordered_elements : \E col \in DOMAIN reordered_elements :
                reorder_cell(a, reordered_elements, row, col) = NoIndex
         THEN Raise(ValueError)
    ELSE construct_same_class(a.kind,
                              a.name \o "_REORDERED",
                              a.description \o " (elements reordered)",
                              reordered_elements,
                              [row \in DOMAIN reordered_elements |->
                                  [col \in DOMAIN reordered_elements |->
                                      reorder_cell(a, reordered_elements, row, col)]])

(***************************************************************************)
(* Subalgebras and subgroups.                                              *)
(***************************************************************************)
\* variant: the elements are kept in the order given
sorted_as_given(a, l) == l

\* sorted(closed_subset_of_elements, key=lambda x: self.elements.index(x)),
\* for a list of names of the algebra: position i holds the name with the
\* i-th smallest index, repeated as often as the list repeats it
sorted_by_index(a, l) ==
    [i \in DOMAIN l |->
        a.elements[Min({k \in DOMAIN a.elements :
                           Cardinality({j \in DOMAIN l : index(a.elements, l[j]) <= k}) > i})]]

\* the cell of the sub-table, or the ValueError of op or of list.index
subalgebra_cell(a, elements_sorted, row, col) ==
    index(elements_sorted, op(a, <<elements_sorted[row], elements_sorted[col]>>))

subalgebra_table(a, elements_sorted, name, desc) ==
    IF \E row \in DOMAIN elements_sorted : \E col \in DOMAIN elements_sorted :
           subalgebra_cell(a, elements_sorted, row, col) = NoIndex
    THEN Raise(ValueError)
    ELSE make_finite_algebra(
             [name |-> name, description |-> desc, elements |-> elements_sorted,
              table |-> [row \in DOMAIN elements_sorted |->
                            [col \in DOMAIN elements_sorted |->
                                subalgebra_cell(a, elements_sorted, row, col)]],
              table2 |-> NoTable])

\* Magma.subalgebra_from_elements
subalgebra_from_elements(a, closed_subset_of_elements, name, desc) ==
    IF \E j \in DOMAIN closed_subset_of_elements :
           index(a.elements, closed_subset_of_elements[j]) = NoIndex
    THEN Raise(ValueError)
    ELSE subalgebra_table(a, sorted_by_index(a, closed_subset_of_elements), name, desc)

\* list(x) of a set of names; subalgebra_from_elements sorts it, so any
\* order stands for the order the set yields
as_list(a, T) ==
    [i \in Idx(Cardinality(T)) |->
        a.elements[Min({k \in DOMAIN a.elements :
                           Cardinality({j \in DOMAIN a.elements :
                                           a.elements[j] \in T /\ j <= k}) > i})]]

\* Magma.proper_subalgebras, given the order in which the set of closed
\* subsets yields its members: order[c] is the closed subset numbered c
proper_subalgebras(a, order) ==
    [c \in DOMAIN order |->
        subalgebra_from_elements(a, as_list(a, order[c]),
                                 a.name \o "_subalgebra_" \o ToString(c),
                                 "Subalgebra of: " \o a.description).alg]

\* Group.trivial_subgroups
trivial_subgroups(a) ==
    [i \in Idx(2) |->
        IF i = 0
        THEN Group("Subgroup of " \o a.name, "Trivial subgroup: " \o a.description,
                   [j \in Idx(1) |-> a.identity], [j \in Idx(1) |-> [k \in Idx(1) |-> 0]],
                   TRUE).alg
        ELSE a]

\* list + list
concat(l1, l2) ==
    [i \in Idx(len(l1) + len(l2)) |-> IF i < len(l1) THEN l1[i] ELSE l2[i - len(l1)]]

\* Group.subgroups
subgroups(a, order) == concat(proper_subalgebras(a, order), trivial_subgroups(a))

\* Group.conjugate: g * a * inv(g)
conjugate(G, a, g) == op(G, <<g, op(G, <<a, inv(G, g)>>)>>)

\* variant: only the first x is looked at
is_normal_first_row(G, subgrp) ==
    \A a \in Range(subgrp.elements) :
        conjugate(G, a, G.elements[0]) \in Range(subgrp.elements)

\* Group.is_normal: result becomes False at the first a of some x whose
\* conjugate is not in subgrp; the break ends that x's row only
is_normal(G, subgrp) ==
    \A i \in DOMAIN G.elements :
        \A a \in Range(subgrp.elements) :
            conjugate(G, a, G.elements[i]) \in Range(subgrp.elements)

(***************************************************************************)
(* Monoid.element_order.  The call returns [err, value, element_orders]:   *)
(* the order or the exception, and the cache as the call leaves it.        *)
(***************************************************************************)
\* order_aux(elem, prod, order).  The products prod, prod*elem, ... of an
\* algebra of n elements repeat after n steps at the latest, so if none of
\* the first n + 1 is the identity none ever is, and the recursion ends in
\* Python's RecursionError.
RECURSIVE order_aux(_, _, _, _)
order_aux(a, elem, prod, order) ==
    IF prod = a.identity THEN [err |-> NoError, value |-> order]
    ELSE IF prod \in {ValueError, IndexError} THEN [err |-> prod, value |-> NoOrder]
    ELSE IF order > len(a.elements) THEN [err |-> RecursionError, value |-> NoOrder]
    ELSE order_aux(a, elem, op(a, <<prod, elem>>), order + 1)

\* the assignment to the cache and the return of the cached value
element_order_cache(a, element, r) ==
    IF r.err # NoError
    THEN [err |-> r.err, value |-> NoOrder, element_orders |-> a.element_orders]
    ELSE [err |-> NoError, value |-> r.value,
          element_orders |-> [a.element_orders EXCEPT ![element] = r.value]]

element_order(a, element) ==
    IF element \notin DOMAIN a.element_orders
    THEN [err |-> KeyError, value |-> NoOrder, element_orders |-> a.element_orders]
    ELSE IF a.element_orders[element] # NoOrder
    THEN [err |-> NoError, value |-> a.element_orders[element],
          element_orders |-> a.element_orders]
    ELSE element_order_cache(a, element, order_aux(a, element, element, 1))

(***************************************************************************)
(* The inputs of the calls.                                                *)
(***************************************************************************)
\* element names as the generators of the source build them
GenNames(elem_name, n) == [i \in Idx(n) |-> elem_name \o ToString(i)]

\* names a caller supplies; ':' is the delimiter of direct products
NamePool == {"e", "a", "e:", ":a"}
UserNames(n) == [Idx(n) -> NamePool]

\* every closed table of order n
AllTables(n) == [Idx(n) -> [Idx(n) -> Idx(n)]]

\* the tables (p*i + q*j + r*i*j + s) mod n
ModTables(n) ==
    {[i \in Idx(n) |-> [j \in Idx(n) |-> (p * i + q * j + r * i * j + s) % n]] :
        p \in Idx(n), q \in Idx(n), r \in Idx(n), s \in Idx(n)}

Tables(n) == IF n <= MaxFullOrder THEN AllTables(n) ELSE ModTables(n)

\* generate_cyclic_group, generate_commutative_ring: the tables
AddTable(order) == [a \in Idx(order) |-> [b \in Idx(order) |-> (a + b) % order]]
MultTable(order) == [a \in Idx(order) |-> [b \in Idx(order) |-> (a * b) % order]]

\* the tables of the test suite
rps_elements == [i \in Idx(3) |-> <<"r", "p", "s">>[i + 1]]
rps_table ==
    [i \in Idx(3) |-> [j \in Idx(3) |->
        <<<<0, 1, 0>>, <<1, 1, 2>>, <<0, 2, 2>>>>[i + 1][j + 1]]]
s3_table ==
    [i \in Idx(6) |-> [j \in Idx(6) |->
        <<<<0, 1, 2, 3, 4, 5>>,
          <<1, 0, 4, 5, 2, 3>>,
          <<2, 3, 0, 1, 5, 4>>,
          <<3, 2, 5, 4, 0, 1>>,
          <<4, 5, 1, 0, 3, 2>>,
          <<5, 4, 3, 2, 1, 0>>>>[i + 1][j + 1]]]
\* the table whose every cell is k
ConstTable(n, k) == [i \in Idx(n) |-> [j \in Idx(n) |-> k]]
\* a table with a cell outside [0, n)
BadTable(n) == [i \in Idx(n) |-> [j \in Idx(n) |-> n]]

Args(nm, elements, table, table2) ==
    [name |-> nm, description |-> "d", elements |-> elements,
     table |-> table, table2 |-> table2]

OneTableInputs ==
    UNION {{Args("A", GenNames("a", n), t, NoTable) : t \in Tables(n) \cup {BadTable(n)}}
              : n \in 1..MaxOrder}
    \cup UNION {{Args("A", l, AddTable(n), NoTable) : l \in UserNames(n)}
              : n \in 1..MaxNameOrder}
    \cup {Args("RPS", rps_elements, rps_table, NoTable),
          Args("S3", GenNames("p", 6), s3_table, NoTable)}

TwoTableInputs ==
    UNION {{Args("R", GenNames("a", n), t1, t2) : t1 \in ModTables(n), t2 \in ModTables(n)}
              : n \in 1..MaxRingOrder}
    \cup {Args("R", GenNames("a", n), AddTable(n), MultTable(n)) : n \in 1..MaxGenOrder}
    \cup {Args("R", GenNames("a", 2), AddTable(2), BadTable(2)),
          Args("S3", GenNames("p", 6), s3_table, ConstTable(6, 0)),
          Args("S3", GenNames("p", 6), s3_table, s3_table)}

\* the algebras on which the operator and the direct product are called
OperandInputs ==
    UNION {{Args("A", GenNames("a", n), t, NoTable) : t \in ModTables(n)} : n \in 1..MaxOperandOrder}
    \cup UNION {{Args("A", l, AddTable(n), NoTable) : l \in UserNames(n)} : n \in 1..MaxMulOrder}
    \cup {Args("RPS", rps_elements, rps_table, NoTable)}

\* the right-hand operands of the direct product
MulInputs ==
    UNION {{Args("B", GenNames("b", n), t, NoTable) : t \in ModTables(n)} : n \in 1..MaxMulOrder}
    \cup UNION {{Args("B", l, AddTable(n), NoTable) : l \in UserNames(n)} : n \in 1..MaxMulOrder}

\* the argument tuples of an operator call: names of the algebra and a
\* name that is none of them
ArgTuples(elements) ==
    UNION {[1..k -> Range(elements) \cup {"zz"}] : k \in 0..MaxArgs}

\* a non-associative table with identity 0 in which every row holds the
\* identity exactly once
loop_table ==
    [i \in Idx(3) |-> [j \in Idx(3) |->
        <<<<0, 1, 2>>, <<1, 0, 2>>, <<2, 2, 0>>>>[i + 1][j + 1]]]

\* the algebras whose subsets are closed
SubjectInputs ==
    UNION {{Args("A", GenNames("a", n), t, NoTable) : t \in ModTables(n)}
              : n \in 1..MaxSubjectOrder}
    \cup {Args("Z", GenNames("a", n), AddTable(n), NoTable) : n \in 1..MaxGenOrder}
    \cup {Args("RPS", rps_elements, rps_table, NoTable),
          Args("L", GenNames("a", 3), loop_table, NoTable),
          Args("S3", GenNames("p", 6), s3_table, NoTable)}

\* the algebras between which isomorphisms are sought
IsoInputs ==
    UNION {{Args("A", GenNames("a", n), t, NoTable) : t \in ModTables(n)}
              : n \in 1..MaxIsoOrder}
    \cup {cyclic_group_args(n) : n \in 2..MaxCyclicOrder}
    \cup {powerset_group_args(1), powerset_group_args(2)}
    \cup {Args("RPS", rps_elements, rps_table, NoTable),
          Args("L", GenNames("a", 3), loop_table, NoTable)}

\* the algebras of which lists are partitioned
PartitionInputs ==
    {cyclic_group_args(n) : n \in 2..MaxCyclicOrder}
    \cup {powerset_group_args(1), powerset_group_args(2),
          Args("RPS", rps_elements, rps_table, NoTable)}

\* generate_cyclic_group(2) * generate_cyclic_group(2)
Z2xZ2 == mul(generate_cyclic_group(2).alg, generate_cyclic_group(2).alg)

\* the algebras a subject is compared with
IsoOthers == {make_finite_algebra(args).alg : args \in IsoInputs} \cup {Z2xZ2.alg}

PartitionPool == {make_finite_algebra(args).alg : args \in PartitionInputs} \cup {Z2xZ2.alg}

\* the lists handed to partition_into_isomorphic_lists
Lists(pool) == UNION {[1..k -> pool] : k \in 0..MaxListLen}

\* calls whose table has dimension m and whose element list has n names
ShapeInputs ==
    UNION {{Args("S", GenNames("a", n), t, NoTable) : t \in ModTables(m)}
              : n \in 1..MaxShapeOrder, m \in 1..MaxShapeOrder}

\* the algebras on which the derived operations are called
DerivedOneTable ==
    UNION {{Args("A", GenNames("a", n), t, NoTable) : t \in ModTables(n)}
              : n \in 1..MaxDerivedOrder}
    \cup {cyclic_group_args(n) : n \in 2..MaxCyclicOrder}
    \cup {Args("S3", GenNames("p", 6), s3_table, NoTable)}

DerivedTwoTable ==
    {Args("R", GenNames("a", n), AddTable(n), MultTable(n)) : n \in 1..MaxCyclicOrder}
    \cup {Args("R0", GenNames("a", n), AddTable(n), ConstTable(n, 0)) : n \in 1..MaxCyclicOrder}

\* the arguments of Ring.mult: names of the ring and what mult_identity gave
MultArgs(a) ==
    UNION {[1..k -> Range(a.elements) \cup {mult_identity(a)}] : k \in 0..MaxMultArgs}

\* the lists handed to reorder_elements: every list of the algebra's length
\* over its names and a foreign name, one list too short and one too long;
\* for the larger algebras the rearrangements of the names only
ReorderLists(a) ==
    IF len(a.elements) <= MaxReorderOrder
    THEN [Idx(len(a.elements)) -> Range(a.elements) \cup {"zz"}]
         \cup {[i \in Idx(len(a.elements) - 1) |-> a.elements[i]],
               [i \in Idx(len(a.elements) + 1) |-> a.elements[0]]}
    ELSE {[i \in Idx(len(a.elements)) |-> a.elements[p[i]]] : p \in permutations(len(a.elements))}

\* the lists handed to subalgebra_from_elements: each non-empty set of
\* names in the algebra's order and in the opposite order
SubsetLists(a) ==
    UNION {{as_list(a, T),
            [i \in Idx(Cardinality(T)) |-> as_list(a, T)[Cardinality(T) - 1 - i]]}
              : T \in (SUBSET Range(a.elements)) \ {{}}}

\* the orders in which a set of sets can yield its members
Orders(S) ==
    {f \in [Idx(Cardinality(S)) -> S] : \A i, j \in Idx(Cardinality(S)) : f[i] = f[j] => i = j}

\* the subgroups handed to is_normal: the subalgebras of the group that are
\* groups themselves, and its two trivial subgroups
SubgroupsOf(a) ==
    {s.alg : s \in {t \in {subalgebra_from_elements(a, l, "H", "d") : l \in SubsetLists(a)} :
                       t.err = NoError /\ t.alg.kind \in GroupKinds}}
    \cup Range(trivial_subgroups(a))

\* the algebras between which the mappings of isomorphic are observed: the
\* enumerated tables, cyclic groups, the powerset group of two items, the
\* integers mod n under multiplication, and rings with the addition of the
\* integers mod n
MapInputs ==
    UNION {{Args("A", GenNames("a", n), t, NoTable) : t \in ModTables(n)} : n \in 1..MaxMapOrder}
    \cup {cyclic_group_args(n) : n \in 2..MaxCyclicOrder}
    \cup {powerset_group_args(2)}
    \cup {Args("M", GenNames("a", n), MultTable(n), NoTable) : n \in 1..MaxCyclicOrder}
    \cup {Args("R", GenNames("a", n), AddTable(n), MultTable(n)) : n \in 1..MaxCyclicOrder}
    \cup {Args("R0", GenNames("a", n), AddTable(n), ConstTable(n, 0)) : n \in 1..MaxCyclicOrder}

MapOthers == {make_finite_algebra(args).alg : args \in MapInputs}

(***************************************************************************)
(* The state: the position of the caller, the call made, and what the call *)
(* produced.                                                               *)
(***************************************************************************)
VARIABLES pc, call, alg, err, out

vars == <<pc, call, alg, err, out>>

NoCall == [fn |-> "none"]
NoOut == [fn |-> "none"]

Init ==
    /\ pc = "idle"
    /\ call = NoCall
    /\ alg = NoAlg
    /\ err = NoError
    /\ out = NoOut

\* what a constructor or the classifier leaves behind: the instance, or the
\* exception and no instance
Outcome(fn, args, r) ==
    [pc |-> IF r.err = NoError THEN "built" ELSE "failed",
     call |-> [fn |-> fn, args |-> args],
     alg |-> r.alg,
     err |-> r.err]

MakeFiniteAlgebra ==
    /\ pc = "idle"
    /\ \E args \in OneTableInputs \cup TwoTableInputs :
          \E o \in {Outcome("make_finite_algebra", args, make_finite_algebra(args))} :
              /\ pc' = o.pc
              /\ call' = o.call
              /\ alg' = o.alg
              /\ err' = o.err
    /\ out' = NoOut

NewMagma ==
    /\ pc = "idle"
    /\ \E args \in OneTableInputs :
          \E o \in {Outcome("Magma", args,
                           Magma(args.name, args.description, args.elements, args.table))} :
              /\ pc' = o.pc
              /\ call' = o.call
              /\ alg' = o.alg
              /\ err' = o.err
    /\ out' = NoOut

NewSemigroup ==
    /\ pc = "idle"
    /\ \E args \in OneTableInputs :
          \E o \in {Outcome("Semigroup", args,
                           Semigroup(args.name, args.description, args.elements,
                                     args.table, TRUE))} :
              /\ pc' = o.pc
              /\ call' = o.call
              /\ alg' = o.alg
              /\ err' = o.err
    /\ out' = NoOut

NewMonoid ==
    /\ pc = "idle"
    /\ \E args \in OneTableInputs :
          \E o \in {Outcome("Monoid", args,
                           Monoid(args.name, args.description, args.elements,
                                  args.table, TRUE))} :
              /\ pc' = o.pc
              /\ call' = o.call
              /\ alg' = o.alg
              /\ err' = o.err
    /\ out' = NoOut

NewGroup ==
    /\ pc = "idle"
    /\ \E args \in OneTableInputs :
          \E o \in {Outcome("Group", args,
                           Group(args.name, args.description, args.elements,
                                 args.table, TRUE))} :
              /\ pc' = o.pc
              /\ call' = o.call
              /\ alg' = o.alg
              /\ err' = o.err
    /\ out' = NoOut

NewRing ==
    /\ pc = "idle"
    /\ \E args \in TwoTableInputs :
          \E o \in {Outcome("Ring", args,
                           Ring(args.name, args.description, args.elements,
                                args.table, args.table2, TRUE))} :
              /\ pc' = o.pc
              /\ call' = o.call
              /\ alg' = o.alg
              /\ err' = o.err
    /\ out' = NoOut

NewField ==
    /\ pc = "idle"
    /\ \E args \in TwoTableInputs :
          \E o \in {Outcome("Field", args,
                           Field(args.name, args.description, args.elements,
                                 args.table, args.table2, TRUE))} :
              /\ pc' = o.pc
              /\ call' = o.call
              /\ alg' = o.alg
              /\ err' = o.err
    /\ out' = NoOut

\* the caller drops the result and is ready for the next call
Reset ==
    /\ pc # "idle"
    /\ pc' = "idle"
    /\ call' = NoCall
    /\ alg' = NoAlg
    /\ err' = NoError
    /\ out' = NoOut

(***************************************************************************)
(* Calls on an instance.                                                   *)
(***************************************************************************)
BuildOperand ==
    /\ pc = "idle"
    /\ \E args \in OperandInputs :
          \E o \in {Outcome("make_finite_algebra", args, make_finite_algebra(args))} :
              /\ pc' = o.pc
              /\ call' = o.call
              /\ alg' = o.alg
              /\ err' = o.err
    /\ out' = NoOut

\* alg.op(*args)
CallOp ==
    /\ pc = "built"
    /\ \E args \in ArgTuples(alg.elements) :
           out' = [fn |-> "op", args |-> args, value |-> op(alg, args)]
    /\ pc' = "called"
    /\ UNCHANGED <<call, alg, err>>

\* alg * other
Mul ==
    /\ pc = "built"
    /\ \E bargs \in MulInputs :
           \E b \in {make_finite_algebra(bargs)} :
               /\ b.err = NoError
               /\ out' = [fn |-> "__mul__", other |-> b.alg, result |-> mul(alg, b.alg)]
    /\ pc' = "called"
    /\ UNCHANGED <<call, alg, err>>

(***************************************************************************)
(* Calls on an instance built by the classifier or by a constructor.       *)
(***************************************************************************)
\* alg.zero_divisors()
ZeroDivisors ==
    /\ pc = "built"
    /\ alg.kind \in {"Ring", "Field"}
    /\ out' = [fn |-> "zero_divisors", value |-> zero_divisors(alg)]
    /\ pc' = "called"
    /\ UNCHANGED <<call, alg, err>>

\* make_finite_algebra(alg.to_dict())
ToDict ==
    /\ pc = "built"
    /\ \E r \in {make_finite_algebra(to_dict(alg))} :
          out' = [fn |-> "to_dict", value |-> to_dict(alg), err |-> r.err, result |-> r.alg]
    /\ pc' = "called"
    /\ UNCHANGED <<call, alg, err>>

Next ==
    \/ MakeFiniteAlgebra
    \/ NewMagma
    \/ NewSemigroup
    \/ NewMonoid
    \/ NewGroup
    \/ NewRing
    \/ NewField
    \/ ZeroDivisors
    \/ ToDict
    \/ Reset

Spec == Init /\ [][Next]_vars

NextOp ==
    \/ BuildOperand
    \/ CallOp
    \/ Mul
    \/ Reset

SpecOp == Init /\ [][NextOp]_vars

(***************************************************************************)
(* Closures of subsets.                                                    *)
(***************************************************************************)
BuildSubject ==
    /\ pc = "idle"
    /\ \E args \in SubjectInputs :
          \E o \in {Outcome("make_finite_algebra", args, make_finite_algebra(args))} :
              /\ pc' = o.pc
              /\ call' = o.call
              /\ alg' = o.alg
              /\ err' = o.err
    /\ out' = NoOut

\* the same tables, through the Magma constructor
NewMagmaSubject ==
    /\ pc = "idle"
    /\ \E args \in SubjectInputs :
          \E o \in {Outcome("Magma", args,
                           Magma(args.name, args.description, args.elements, args.table))} :
              /\ pc' = o.pc
              /\ call' = o.call
              /\ alg' = o.alg
              /\ err' = o.err
    /\ out' = NoOut

\* alg.closure(subset)
Closure ==
    /\ pc = "built"
    /\ \E subset \in SUBSET Range(alg.elements) :
          \E r \in {closure(alg, subset, Cardinality(subset))} :
              out' = [fn |-> "closure", subset |-> subset, err |-> r.err, value |-> r.value]
    /\ pc' = "called"
    /\ UNCHANGED <<call, alg, err>>

\* alg.closed_subsets_of_elements(non_trivial)
ClosedSubsets ==
    /\ pc = "built"
    /\ \E non_trivial \in BOOLEAN :
          \E r \in {closed_subsets_of_elements(alg, non_trivial)} :
              out' = [fn |-> "closed_subsets_of_elements", non_trivial |-> non_trivial,
                      err |-> r.err, value |-> r.value]
    /\ pc' = "called"
    /\ UNCHANGED <<call, alg, err>>

NextSet ==
    \/ BuildSubject
    \/ NewMagmaSubject
    \/ Closure
    \/ ClosedSubsets
    \/ Reset

SpecSet == Init /\ [][NextSet]_vars

(***************************************************************************)
(* Isomorphisms.                                                           *)
(***************************************************************************)
BuildIsoSubject ==
    /\ pc = "idle"
    /\ \E args \in IsoInputs :
          \E o \in {Outcome("make_finite_algebra", args, make_finite_algebra(args))} :
              /\ pc' = o.pc
              /\ call' = o.call
              /\ alg' = o.alg
              /\ err' = o.err
    /\ out' = NoOut

\* generate_cyclic_group(2) * generate_cyclic_group(2)
BuildProduct ==
    /\ pc = "idle"
    /\ \E o \in {Outcome("__mul__", <<cyclic_group_args(2), cyclic_group_args(2)>>, Z2xZ2)} :
          /\ pc' = o.pc
          /\ call' = o.call
          /\ alg' = o.alg
          /\ err' = o.err
    /\ out' = NoOut

\* alg.isomorphic(other), other being alg itself or another algebra
Isomorphic ==
    /\ pc = "built"
    /\ \E other \in {alg} \cup IsoOthers :
          out' = [fn |-> "isomorphic", other |-> other, value |-> isomorphic(alg, other)]
    /\ pc' = "called"
    /\ UNCHANGED <<call, alg, err>>

\* partition_into_isomorphic_lists(list_of_groups)
Partition ==
    /\ pc = "idle"
    /\ \E list_of_groups \in Lists(PartitionPool) :
          out' = [fn |-> "partition_into_isomorphic_lists", list |-> list_of_groups,
                  value |-> partition_into_isomorphic_lists(list_of_groups)]
    /\ pc' = "called"
    /\ UNCHANGED <<call, alg, err>>

NextIso ==
    \/ BuildIsoSubject
    \/ BuildProduct
    \/ Isomorphic
    \/ Partition
    \/ Reset

SpecIso == Init /\ [][NextIso]_vars

(***************************************************************************)
(* Construction from a table and an element list of any two sizes.         *)
(***************************************************************************)
MakeShape ==
    /\ pc = "idle"
    /\ \E args \in ShapeInputs :
          \E o \in {Outcome("make_finite_algebra", args, make_finite_algebra(args))} :
              /\ pc' = o.pc
              /\ call' = o.call
              /\ alg' = o.alg
              /\ err' = o.err
    /\ out' = NoOut

NewMagmaShape ==
    /\ pc = "idle"
    /\ \E args \in ShapeInputs :
          \E o \in {Outcome("Magma", args,
                            Magma(args.name, args.description, args.elements, args.table))} :
              /\ pc' = o.pc
              /\ call' = o.call
              /\ alg' = o.alg
              /\ err' = o.err
    /\ out' = NoOut

NewGroupShape ==
    /\ pc = "idle"
    /\ \E args \in ShapeInputs :
          \E o \in {Outcome("Group", args,
                            Group(args.name, args.description, args.elements, args.table, TRUE))} :
              /\ pc' = o.pc
              /\ call' = o.call
              /\ alg' = o.alg
              /\ err' = o.err
    /\ out' = NoOut

\* generate_cyclic_group(order): the call records the arguments it hands to
\* make_finite_algebra
GenerateCyclicGroup ==
    /\ pc = "idle"
    /\ \E order \in 1..MaxGenOrder :
          \E o \in {Outcome("generate_cyclic_group", cyclic_group_args(order),
                            generate_cyclic_group(order))} :
              /\ pc' = o.pc
              /\ call' = o.call
              /\ alg' = o.alg
              /\ err' = o.err
    /\ out' = NoOut

NextShape ==
    \/ MakeShape
    \/ NewMagmaShape
    \/ NewGroupShape
    \/ GenerateCyclicGroup
    \/ Reset

SpecShape == Init /\ [][NextShape]_vars

(***************************************************************************)
(* The derived operations of an instance.                                  *)
(***************************************************************************)
BuildDerived ==
    /\ pc = "idle"
    /\ \E args \in DerivedOneTable \cup DerivedTwoTable :
          \E o \in {Outcome("make_finite_algebra", args, make_finite_algebra(args))} :
              /\ pc' = o.pc
              /\ call' = o.call
              /\ alg' = o.alg
              /\ err' = o.err
    /\ out' = NoOut

\* alg.mult_identity
MultIdentity ==
    /\ pc = "built"
    /\ alg.kind \in {"Ring", "Field"}
    /\ out' = [fn |-> "mult_identity", value |-> mult_identity(alg)]
    /\ pc' = "called"
    /\ UNCHANGED <<call, alg, err>>

\* alg.one
One ==
    /\ pc = "built"
    /\ alg.kind \in {"Ring", "Field"}
    /\ out' = [fn |-> "one", value |-> one(alg)]
    /\ pc' = "called"
    /\ UNCHANGED <<call, alg, err>>

\* alg.has_mult_identity()
HasMultIdentity ==
    /\ pc = "built"
    /\ alg.kind \in {"Ring", "Field"}
    /\ out' = [fn |-> "has_mult_identity", value |-> has_mult_identity(alg)]
    /\ pc' = "called"
    /\ UNCHANGED <<call, alg, err>>

\* alg.mult(*args)
Mult ==
    /\ pc = "built"
    /\ alg.kind \in {"Ring", "Field"}
    /\ \E args \in MultArgs(alg) :
           out' = [fn |-> "mult", args |-> args, value |-> mult(alg, args)]
    /\ pc' = "called"
    /\ UNCHANGED <<call, alg, err>>

\* alg.reorder_elements(reordered_elements)
ReorderElements ==
    /\ pc = "built"
    /\ len(alg.elements) <= MaxCyclicOrder
    /\ \E re \in ReorderLists(alg) :
           out' = [fn |-> "reorder_elements", reordered_elements |-> re,
                   value |-> reorder_elements(alg, re)]
    /\ pc' = "called"
    /\ UNCHANGED <<call, alg, err>>

\* alg.subalgebra_from_elements(closed_subset_of_elements)
SubalgebraFromElements ==
    /\ pc = "built"
    /\ \E l \in SubsetLists(alg) :
           out' = [fn |-> "subalgebra_from_elements", closed_subset_of_elements |-> l,
                   value |-> subalgebra_from_elements(alg, l, "No name", "No description")]
    /\ pc' = "called"
    /\ UNCHANGED <<call, alg, err>>

\* alg.is_normal(subgrp)
IsNormal ==
    /\ pc = "built"
    /\ alg.kind \in GroupKinds
    /\ \E subgrp \in SubgroupsOf(alg) :
           out' = [fn |-> "is_normal", subgrp |-> subgrp, value |-> is_normal(alg, subgrp)]
    /\ pc' = "called"
    /\ UNCHANGED <<call, alg, err>>

\* alg.subgroups(); the set of closed subsets yields its members in some
\* order
Subgroups ==
    /\ pc = "built"
    /\ alg.kind \in GroupKinds
    /\ \E cs \in {closed_subsets_of_elements(alg, TRUE)} :
          \E order \in Orders(cs.value) :
              out' = [fn |-> "subgroups", err |-> cs.err,
                      value |-> IF cs.err = NoError THEN subgroups(alg, order) ELSE <<>>]
    /\ pc' = "called"
    /\ UNCHANGED <<call, alg, err>>

\* alg.element_order(element), on a fresh instance or after earlier calls of
\* element_order on it
ElementOrder ==
    /\ pc = "built" \/ (pc = "called" /\ out.fn = "element_order")
    /\ alg.kind \in MonoidKinds
    /\ \E element \in Range(alg.elements) \cup {"zz"} :
          \E r \in {element_order(alg, element)} :
              /\ out' = [fn |-> "element_order", element |-> element,
                         err |-> r.err, value |-> r.value]
              /\ alg' = [alg EXCEPT !.element_orders = r.element_orders]
    /\ pc' = "called"
    /\ UNCHANGED <<call, err>>

NextDerived ==
    \/ BuildDerived
    \/ MultIdentity
    \/ One
    \/ HasMultIdentity
    \/ Mult
    \/ ReorderElements
    \/ SubalgebraFromElements
    \/ IsNormal
    \/ Subgroups
    \/ ElementOrder
    \/ Reset

SpecDerived == Init /\ [][NextDerived]_vars

(***************************************************************************)
(* The mappings isomorphic examines.                                       *)
(***************************************************************************)
BuildMapSubject ==
    /\ pc = "idle"
    /\ \E args \in MapInputs :
          \E o \in {Outcome("make_finite_algebra", args, make_finite_algebra(args))} :
              /\ pc' = o.pc
              /\ call' = o.call
              /\ alg' = o.alg
              /\ err' = o.err
    /\ out' = NoOut

\* alg.isomorphic(other), with the mappings its loop has tested
IsomorphicTested ==
    /\ pc = "built"
    /\ \E other \in MapOthers :
          out' = [fn |-> "isomorphic", other |-> other, value |-> isomorphic(alg, other),
                  tested |-> tested_mappings(alg, other)]
    /\ pc' = "called"
    /\ UNCHANGED <<call, alg, err>>

NextMap ==
    \/ BuildMapSubject
    \/ IsomorphicTested
    \/ Reset

SpecMap == Init /\ [][NextMap]_vars

TypeOK ==
    /\ pc \in {"idle", "built", "failed", "called"}
    /\ (pc = "built") => (alg # NoAlg /\ err = NoError)
    /\ (pc = "failed") => (alg = NoAlg /\ err # NoError)

(***************************************************************************)
(* The axioms, stated on a table, against which the classes are judged.    *)
(***************************************************************************)
Associative(t) ==
    ~ \E x \in DOMAIN t : \E y \in DOMAIN t : \E z \in DOMAIN t :
          t[t[x][y]][z] # t[x][t[y][z]]

Identities(t) == {e \in DOMAIN t : \A x \in DOMAIN t : t[e][x] = x /\ t[x][e] = x}

HasIdentity(t) == Identities(t) # {}

EveryElementInvertible(t) ==
    \E e \in Identities(t) :
        \A a \in DOMAIN t : \E b \in DOMAIN t : t[a][b] = e /\ t[b][a] = e

GroupAxioms(t) == Associative(t) /\ EveryElementInvertible(t)

Commutative(t) == \A x \in DOMAIN t : \A y \in DOMAIN t : t[x][y] = t[y][x]

LeftDistributive(t2, t1) ==
    \A x \in DOMAIN t1 : \A y \in DOMAIN t1 : \A z \in DOMAIN t1 :
        t2[x][t1[y][z]] = t1[t2[x][y]][t2[x][z]]

RightDistributive(t2, t1) ==
    \A x \in DOMAIN t1 : \A y \in DOMAIN t1 : \A z \in DOMAIN t1 :
        t2[t1[y][z]][x] = t1[t2[y][x]][t2[z][x]]

RingAxioms(t1, t2) ==
    /\ GroupAxioms(t1)
    /\ Commutative(t1)
    /\ Associative(t2)
    /\ LeftDistributive(t2, t1)
    /\ RightDistributive(t2, t1)

\* the elements other than the identity of t1 form a commutative group under t2
NonzeroCommutativeGroup(t1, t2) ==
    \E z \in Identities(t1) :
        LET nz == DOMAIN t1 \ {z}
        IN  /\ \A x \in nz : \A y \in nz : t2[x][y] \in nz /\ t2[x][y] = t2[y][x]
            /\ \A x \in nz : \A y \in nz : \A w \in nz : t2[t2[x][y]][w] = t2[x][t2[y][w]]
            /\ \E u \in nz :
                  /\ \A x \in nz : t2[u][x] = x /\ t2[x][u] = x
                  /\ \A x \in nz : \E y \in nz : t2[x][y] = u /\ t2[y][x] = u

\* a square closed table (or two) over as many pairwise distinct names
WellFormed(args) ==
    /\ \A i \in DOMAIN args.elements : \A j \in DOMAIN args.elements :
          args.elements[i] = args.elements[j] => i = j
    /\ CayleyTableOK(args.table)
    /\ DOMAIN args.table = DOMAIN args.elements
    /\ args.table2 # NoTable =>
          (CayleyTableOK(args.table2) /\ DOMAIN args.table2 = DOMAIN args.elements)

Returned(fn) == pc = "built" /\ call.fn = fn
Called(fn) == pc \in {"built", "failed"} /\ call.fn = fn

(***************************************************************************)
(* C1.  make_finite_algebra on a square closed table over distinct names   *)
(* returns a Magma iff table1 is not associative, a Semigroup iff it is    *)
(* associative without identity, a Monoid iff associative with identity    *)
(* but not all inverses, a Group iff it satisfies the group axioms and     *)
(* table2 is absent or not associative, a Ring or Field otherwise; the     *)
(* rock-paper-scissors table gives a Magma equal to the constructed one.   *)
(***************************************************************************)
C1_ClassifierLadder ==
    (Called("make_finite_algebra") /\ WellFormed(call.args)) =>
        LET t == call.args.table
            t2 == call.args.table2
        IN  /\ pc = "built"
            /\ alg.kind \in Kinds
            /\ alg.kind = "Magma" <=> ~Associative(t)
            /\ alg.kind = "Semigroup" <=> (Associative(t) /\ ~HasIdentity(t))
            /\ alg.kind = "Monoid" <=>
                  (Associative(t) /\ HasIdentity(t) /\ ~EveryElementInvertible(t))
            /\ alg.kind = "Group" <=>
                  (GroupAxioms(t) /\ (t2 = NoTable \/ ~Associative(t2)))
            /\ alg.kind \in {"Ring", "Field"} <=>
                  (GroupAxioms(t) /\ t2 # NoTable /\ Associative(t2))
            /\ (call.args.elements = rps_elements /\ t = rps_table /\ t2 = NoTable) =>
                  /\ alg.kind = "Magma"
                  /\ eq(alg, Magma("RPS", "d", rps_elements, rps_table).alg)

\* the classifier stopped at the Group rung although a second table was given
C1_Witness ==
    /\ Returned("make_finite_algebra")
    /\ alg.kind = "Group"
    /\ call.args.table2 # NoTable
    /\ len(alg.elements) > 1

(***************************************************************************)
(* C2.  make_finite_algebra on a two-table input that passes the Group     *)
(* rung on table1 and the associativity rung on table2, and whose elements *)
(* other than the additive identity form a commutative group under table2  *)
(* (the integers mod 5), returns a Field.                                  *)
(***************************************************************************)
C2_FieldIsClassifiedAsField ==
    (/\ Called("make_finite_algebra")
     /\ WellFormed(call.args)
     /\ call.args.table2 # NoTable
     /\ GroupAxioms(call.args.table)
     /\ Associative(call.args.table2)
     /\ NonzeroCommutativeGroup(call.args.table, call.args.table2)) =>
        (pc = "built" /\ alg.kind = "Field")

(***************************************************************************)
(* C3.  Every Ring or Field returned by make_finite_algebra has a          *)
(* commutative group as table1, an associative table2, and table2          *)
(* distributes over table1 on the left and on the right.                   *)
(***************************************************************************)
C3_ClassifiedRingInvariant ==
    (Returned("make_finite_algebra") /\ alg.kind \in {"Ring", "Field"}) =>
        RingAxioms(alg.table, alg.table2)

(***************************************************************************)
(* C4.  With input checking, Semigroup fails on a non-associative table,   *)
(* Monoid on a table without identity, Group on a table with an element    *)
(* without inverse; a failure yields no instance; the lowest violated      *)
(* level is the one reported; the constructor succeeds when all axioms of  *)
(* its level hold.                                                         *)
(***************************************************************************)
C4_CheckedConstructors ==
    (Called(call.fn) /\ call.fn \in {"Semigroup", "Monoid", "Group"} /\ WellFormed(call.args)) =>
        LET t == call.args.table
            level == IF call.fn = "Semigroup" THEN 1 ELSE IF call.fn = "Monoid" THEN 2 ELSE 3
            expected == IF ~Associative(t) THEN NotAssociative
                        ELSE IF level >= 2 /\ ~HasIdentity(t) THEN NoIdentity
                        ELSE IF level >= 3 /\ ~EveryElementInvertible(t) THEN InsufficientInverses
                        ELSE NoError
        IN  /\ err = expected
            /\ err # NoError => (pc = "failed" /\ alg = NoAlg)
            /\ err = NoError => (pc = "built" /\ alg.kind = call.fn /\ alg.table = t)

\* Group on the rock-paper-scissors table fails on associativity
C4_Witness ==
    /\ pc = "failed"
    /\ call.fn = "Group"
    /\ call.args.table = rps_table
    /\ err = NotAssociative
    /\ alg = NoAlg

(***************************************************************************)
(* C5.  With input checking, the Ring constructor succeeds exactly when    *)
(* table1 is an abelian group and table2 is associative and distributes    *)
(* over table1 on both sides; otherwise it fails with an error.            *)
(***************************************************************************)
C5_CheckedRingConstructor ==
    (Called("Ring") /\ WellFormed(call.args) /\ call.args.table2 # NoTable) =>
        LET t1 == call.args.table
            t2 == call.args.table2
        IN  /\ pc = "built" <=> RingAxioms(t1, t2)
            /\ pc = "built" => (alg.kind = "Ring" /\ alg.table = t1 /\ alg.table2 = t2)
            /\ pc = "failed" => (alg = NoAlg /\ err # NoError)
            /\ (GroupAxioms(t1) /\ ~Commutative(t1)) => err = NotCommutative
            /\ (GroupAxioms(t1) /\ Commutative(t1) /\ ~Associative(t2)) =>
                  err = MultNotAssociative
            /\ (GroupAxioms(t1) /\ Commutative(t1) /\ Associative(t2)
                  /\ ~(LeftDistributive(t2, t1) /\ RightDistributive(t2, t1))) =>
                  err = NotDistributive

\* the Ring constructor rejected a non-commutative addition
C5_Witness ==
    /\ pc = "failed"
    /\ call.fn = "Ring"
    /\ call.args.table = s3_table
    /\ err = NotCommutative

(***************************************************************************)
(* C6.  Every Field instance has its elements other than the additive      *)
(* identity forming a commutative group under multiplication; the checked  *)
(* Field constructor fails on ring tables that violate this.               *)
(***************************************************************************)
C6_FieldInvariant ==
    (pc = "built" /\ alg.kind = "Field") =>
        NonzeroCommutativeGroup(alg.table, alg.table2)

(***************************************************************************)
(* C7.  In every Group obtained from the checking constructor or from      *)
(* make_finite_algebra, inv is defined for every element a,                *)
(* op(a, inv(a)) = identity = op(inv(a), a), and inv(inv(a)) = a.          *)
(***************************************************************************)
C7_GroupInverses ==
    (pc = "built" /\ alg.kind \in GroupKinds) =>
        \A a \in Range(alg.elements) :
            /\ inv(alg, a) \in Range(alg.elements)
            /\ op(alg, <<a, inv(alg, a)>>) = alg.identity
            /\ op(alg, <<inv(alg, a), a>>) = alg.identity
            /\ inv(alg, inv(alg, a)) = a

Lookup(a, x, y) == a.elements[a.table[index(a.elements, x)][index(a.elements, y)]]

\* ((x1 . x2) . x3) ... . xk, grouped from the last argument inwards
RECURSIVE LeftNested(_, _)
LeftNested(a, xs) ==
    IF Len(xs) = 1 THEN xs[1]
    ELSE Lookup(a, LeftNested(a, SubSeq(xs, 1, Len(xs) - 1)), xs[Len(xs)])

C9_LeftFold ==
    (pc = "called" /\ out.fn = "op") =>
        LET names == Range(alg.elements)
            xs == out.args
        IN  /\ (Len(xs) > 2 /\ Range(xs) \subseteq names) =>
                  /\ out.value = LeftNested(alg, xs)
                  /\ out.value = op(alg, <<op(alg, SubSeq(xs, 1, Len(xs) - 1)), xs[Len(xs)]>>)
            /\ (Len(xs) = 3 /\ Range(xs) \subseteq names) =>
                  out.value = Lookup(alg, Lookup(alg, xs[1], xs[2]), xs[3])
            /\ (Len(xs) = 1 /\ xs[1] \in names) => out.value = xs[1]
            /\ (Len(xs) = 1 /\ xs[1] \notin names) => out.value = ValueError
            /\ (call.args.table = rps_table /\ xs = <<"r", "p", "s">>) =>
                  /\ out.value = op(alg, <<op(alg, <<"r", "p">>), "s">>)
                  /\ out.value # op(alg, <<"r", op(alg, <<"p", "s">>)>>)

\* op(r, p, s) on rock-paper-scissors, where the two groupings differ
C9_Witness ==
    /\ pc = "called"
    /\ out.fn = "op"
    /\ call.args.table = rps_table
    /\ out.args = <<"r", "p", "s">>
    /\ out.value = "s"
    /\ Lookup(alg, "r", Lookup(alg, "p", "s")) = "r"

(***************************************************************************)
(* C10.  For algebras A of order m and B of order n, A*B has exactly m*n   *)
(* elements in lexicographic product order, its operation is componentwise *)
(* and, if A and B have an identity, its identity is the pair of them.     *)
(***************************************************************************)
\* the name of the pair (a, b) in A*B
PairName(a, b) == a \o dp_delimiter \o b

ProductShape(A, B, P) ==
    LET m == len(A.elements)
        n == len(B.elements)
    IN  /\ len(P.elements) = m * n
        /\ len(P.table) = m * n
        /\ \A i \in DOMAIN A.elements : \A j \in DOMAIN B.elements :
              P.elements[i * n + j] = PairName(A.elements[i], B.elements[j])
        /\ \A a1 \in Range(A.elements) : \A a2 \in Range(A.elements) :
           \A b1 \in Range(B.elements) : \A b2 \in Range(B.elements) :
              op(P, <<PairName(a1, b1), PairName(a2, b2)>>)
                  = PairName(Lookup(A, a1, a2), Lookup(B, b1, b2))
        /\ (A.identity # None /\ B.identity # None) =>
              P.identity = PairName(A.identity, B.identity)

C10_DirectProduct ==
    (pc = "called" /\ out.fn = "__mul__") =>
        /\ out.result.err = NoError
        /\ ProductShape(alg, out.other, out.result.alg)

(***************************************************************************)
(* Closed sets of element names, against which closure is judged.          *)
(***************************************************************************)
OpClosed(a, T) == \A x \in T : \A y \in T : op(a, <<x, y>>) \in T

InvClosed(a, T) ==
    \A x \in T : \A y \in Range(a.elements) :
        (op(a, <<x, y>>) = a.identity /\ op(a, <<y, x>>) = a.identity) => y \in T

ClosedSet(a, T) ==
    /\ OpClosed(a, T)
    /\ EveryElementInvertible(a.table) => InvClosed(a, T)

(***************************************************************************)
(* C11.  For an algebra of any level and any subset S of its element       *)
(* names, closure(S) returns a set of element names that contains S, is    *)
(* closed under the operation (and under inverses when the algebra has     *)
(* inverses), and is the smallest such set.                                *)
(***************************************************************************)
C11_Closure ==
    (pc = "called" /\ out.fn = "closure") =>
        /\ out.err = NoError
        /\ out.subset \subseteq out.value
        /\ out.value \subseteq Range(alg.elements)
        /\ ClosedSet(alg, out.value)
        /\ \A T \in SUBSET Range(alg.elements) :
              (out.subset \subseteq T /\ ClosedSet(alg, T)) => out.value \subseteq T

(***************************************************************************)
(* C12.  Closure is idempotent: closure(closure(S)) and closure(S) are     *)
(* equal as sets, for any algebra and any subset S of its elements.        *)
(***************************************************************************)
C12_ClosureIdempotent ==
    (pc = "called" /\ out.fn = "closure") =>
        /\ out.err = NoError
        /\ closure(alg, out.value, Cardinality(out.value)) = Returns(out.value)

(***************************************************************************)
(* C13.  closed_subsets_of_elements returns every subset of at least two   *)
(* elements (one when non_trivial is false) that is closed under the       *)
(* operation and is not the whole element set, and every returned set is   *)
(* closed and has fewer than n elements.                                   *)
(***************************************************************************)
C13_ClosedSubsets ==
    (pc = "called" /\ out.fn = "closed_subsets_of_elements") =>
        /\ out.err = NoError
        /\ \A T \in SUBSET Range(alg.elements) :
              (/\ Cardinality(T) >= (IF out.non_trivial THEN 2 ELSE 1)
               /\ T # Range(alg.elements)
               /\ OpClosed(alg, T)) => T \in out.value
        /\ \A T \in out.value :
              OpClosed(alg, T) /\ Cardinality(T) < len(alg.elements)

(***************************************************************************)
(* Isomorphisms, against which isomorphic is judged.                       *)
(***************************************************************************)
Bijections(A, B) ==
    {f \in [Range(A.elements) -> Range(B.elements)] :
        /\ \A x \in Range(A.elements) : \A y \in Range(A.elements) : f[x] = f[y] => x = y
        /\ \A z \in Range(B.elements) : \E x \in Range(A.elements) : f[x] = z}

PreservesOp(A, B, f) ==
    \A x \in Range(A.elements) : \A y \in Range(A.elements) :
        f[op(A, <<x, y>>)] = op(B, <<f[x], f[y]>>)

IsomorphismExists(A, B) == \E f \in Bijections(A, B) : PreservesOp(A, B, f)

Count(l, g) == Cardinality({i \in DOMAIN l : l[i] = g})
FirstOccurrence(l, bucket) == Min({i \in DOMAIN l : l[i] \in Range(bucket)})

C17_Z2xZ2 ==
    /\ Called("__mul__") => (pc = "built" /\ alg.kind = "Group" /\ len(alg.elements) = 4)
    /\ (pc = "called" /\ out.fn = "isomorphic" /\ call.fn = "__mul__") =>
          /\ out.other = generate_powerset_group(2).alg =>
                (out.value.found /\ Range(out.value.mapping) = Range(out.other.elements))
          /\ out.other = generate_cyclic_group(4).alg => out.value = NoMapping
    /\ (pc = "called" /\ out.fn = "isomorphic" /\ alg = generate_cyclic_group(4).alg
           /\ out.other = Z2xZ2.alg) => out.value = NoMapping

\* the product has been compared with the powerset group
C17_Witness ==
    /\ pc = "called"
    /\ out.fn = "isomorphic"
    /\ call.fn = "__mul__"
    /\ alg.elements = [i \in Idx(4) |-> <<"e:e", "e:a", "a:e", "a:a">>[i + 1]]
    /\ out.other.kind = "Group"
    /\ out.other.elements = [i \in Idx(4) |-> <<"{}", "{0}", "{1}", "{0, 1}">>[i + 1]]
    /\ out.value.found

(***************************************************************************)
(* C18.  For every Ring, wherever the additive identity stands in the      *)
(* element order, zero_divisors returns exactly the elements a other than  *)
(* the additive identity for which some b other than the additive identity *)
(* has a*b = zero or b*a = zero: none for the integers mod 5, the element  *)
(* 2 for the integers mod 4.                                               *)
(***************************************************************************)
ZeroDivisorsOf(a) ==
    LET zero == index(a.elements, a.identity)
        nonzero == DOMAIN a.elements \ {zero}
    IN  {a.elements[x] : x \in {y \in nonzero :
            \E b \in nonzero : a.table2[y][b] = zero \/ a.table2[b][y] = zero}}

C18_ZeroDivisors ==
    (pc = "called" /\ out.fn = "zero_divisors") =>
        /\ out.value = ZeroDivisorsOf(alg)
        /\ (alg.table = AddTable(5) /\ alg.table2 = MultTable(5)) => out.value = {}
        /\ (alg.table = AddTable(4) /\ alg.table2 = MultTable(4)) => out.value = {alg.elements[2]}

(***************************************************************************)
(* C19.  make_finite_algebra(A.to_dict()) returns an algebra of the same   *)
(* level with the same name, description, elements and table, and for a    *)
(* Ring or Field also the same multiplication table.                       *)
(***************************************************************************)
C19_ToDictRoundTrip ==
    (pc = "called" /\ out.fn = "to_dict") =>
        /\ out.err = NoError
        /\ out.result.kind = alg.kind
        /\ out.result.name = alg.name
        /\ out.result.description = alg.description
        /\ out.result.elements = alg.elements
        /\ out.result.table = alg.table
        /\ alg.kind \in {"Ring", "Field"} => out.result.table2 = alg.table2

(***************************************************************************)
(* C20.  Every instance that exists after construction has pairwise        *)
(* distinct element names, whichever path built it; an element list with   *)
(* a repeated name is rejected with an error and no instance is returned.  *)
(***************************************************************************)
DistinctNames(elements) ==
    \A i \in DOMAIN elements : \A j \in DOMAIN elements :
        elements[i] = elements[j] => i = j

C20_DistinctNames ==
    /\ alg # NoAlg => DistinctNames(alg.elements)
    /\ (pc \in {"built", "failed"} /\ ~DistinctNames(call.args.elements)) =>
          (pc = "failed" /\ alg = NoAlg)

(***************************************************************************)
(* C21: every constructed algebra has an n x n table where n is the number *)
(* of its element names, and a call whose table dimension disagrees with   *)
(* the number of names fails; for make_finite_algebra, the explicit        *)
(* constructors and generate_cyclic_group(order), order >= 1.              *)
(***************************************************************************)
C21_TableMatchesElements ==
    /\ alg # NoAlg =>
          /\ DOMAIN alg.table = DOMAIN alg.elements
          /\ \A i \in DOMAIN alg.table : DOMAIN alg.table[i] = DOMAIN alg.elements
    /\ (pc \in {"built", "failed"} /\ len(call.args.table) # len(call.args.elements))
          => pc = "failed"

(***************************************************************************)
(* C22: for a Ring whose multiplication has a two-sided identity,          *)
(* mult_identity, one and mult() return that element's name u, and         *)
(* mult(u, a) = a = mult(a, u) for every element a; without one they       *)
(* return None and has_mult_identity() is False.                           *)
(***************************************************************************)
MultIdentityName(a) ==
    IF HasIdentity(a.table2) THEN a.elements[Min(Identities(a.table2))] ELSE None

C22_MultIdentity ==
    /\ (pc = "called" /\ out.fn \in {"mult_identity", "one"}) => out.value = MultIdentityName(alg)
    /\ (pc = "called" /\ out.fn = "has_mult_identity") => (out.value <=> HasIdentity(alg.table2))
    /\ (pc = "called" /\ out.fn = "mult") =>
          /\ out.args = <<>> => out.value = MultIdentityName(alg)
          /\ (Len(out.args) = 2 /\ HasIdentity(alg.table2)) =>
                /\ out.args[1] = mult_identity(alg) => out.value = out.args[2]
                /\ out.args[2] = mult_identity(alg) => out.value = out.args[1]

(***************************************************************************)
(* C23: for an algebra of any level from Magma to Ring and any             *)
(* rearrangement p of its names, reorder_elements(p) returns an algebra of *)
(* the same level with element order p whose operation agrees with the     *)
(* original on names; associativity, commutativity and the identity name   *)
(* are unchanged.                                                          *)
(***************************************************************************)
Rearrangement(elements, l) ==
    /\ DOMAIN l = DOMAIN elements
    /\ Range(l) = Range(elements)

C23_ReorderElements ==
    (/\ pc = "called" /\ out.fn = "reorder_elements"
     /\ alg.kind \in {"Magma", "Semigroup", "Monoid", "Group", "Ring"}
     /\ DistinctNames(alg.elements)
     /\ Rearrangement(alg.elements, out.reordered_elements)) =>
        /\ out.value.err = NoError
        /\ out.value.alg.kind = alg.kind
        /\ out.value.alg.elements = out.reordered_elements
        /\ \A x \in Range(alg.elements) : \A y \in Range(alg.elements) :
              op(out.value.alg, <<x, y>>) = op(alg, <<x, y>>)
        /\ is_associative(out.value.alg.table) = is_associative(alg.table)
        /\ is_commutative(out.value.alg.table) = is_commutative(alg.table)
        /\ out.value.alg.identity = alg.identity

(***************************************************************************)
(* C24: reorder_elements called with a list that is not a rearrangement of *)
(* the element names (wrong length, a repeated name, a foreign name)       *)
(* raises an error and returns no algebra.                                 *)
(***************************************************************************)
C24_MalformedPermutation ==
    (/\ pc = "called" /\ out.fn = "reorder_elements"
     /\ DistinctNames(alg.elements)
     /\ ~Rearrangement(alg.elements, out.reordered_elements)) =>
        /\ out.value.err # NoError
        /\ out.value.alg = NoAlg

(***************************************************************************)
(* C25: is_normal(H) on a Group G returns True iff for every x in G and    *)
(* every a in H the conjugate x.a.inv(x) is an element of H; it returns    *)
(* True for both trivial subgroups and for every subgroup of a commutative *)
(* group.                                                                  *)
(***************************************************************************)
\* the two-sided inverse of x, from the table
InverseOf(G, x) ==
    CHOOSE y \in Range(G.elements) :
        Lookup(G, x, y) = G.identity /\ Lookup(G, y, x) = G.identity

Normal(G, H) ==
    \A x \in Range(G.elements) : \A a \in H :
        Lookup(G, Lookup(G, x, a), InverseOf(G, x)) \in H

LevelOf(t) ==
    IF GroupAxioms(t) THEN "Group"
    ELSE IF Associative(t) /\ HasIdentity(t) THEN "Monoid"
    ELSE IF Associative(t) THEN "Semigroup"
    ELSE "Magma"

InParentOrder(P, l) ==
    \A i \in DOMAIN l : \A j \in DOMAIN l :
        i < j => index(P.elements, l[i]) < index(P.elements, l[j])

C26_SubalgebraFromElements ==
    (/\ pc = "called" /\ out.fn = "subalgebra_from_elements"
     /\ DistinctNames(alg.elements)
     /\ OpClosed(alg, Range(out.closed_subset_of_elements))) =>
        /\ out.value.err = NoError
        /\ Range(out.value.alg.elements) = Range(out.closed_subset_of_elements)
        /\ len(out.value.alg.elements) = Cardinality(Range(out.closed_subset_of_elements))
        /\ InParentOrder(alg, out.value.alg.elements)
        /\ \A a \in Range(out.closed_subset_of_elements) :
              \A b \in Range(out.closed_subset_of_elements) :
                  op(out.value.alg, <<a, b>>) = Lookup(alg, a, b)
        /\ out.value.alg.kind = LevelOf(out.value.alg.table)
        /\ alg = make_finite_algebra(call.args).alg

\* a closed subset of three names, handed over in the opposite order
C26_Witness ==
    /\ pc = "called" /\ out.fn = "subalgebra_from_elements"
    /\ OpClosed(alg, Range(out.closed_subset_of_elements))
    /\ len(out.closed_subset_of_elements) = 3
    /\ len(alg.elements) > 3
    /\ ~InParentOrder(alg, out.closed_subset_of_elements)
    /\ out.value.err = NoError

(***************************************************************************)
(* C29: for every Group G of order >= 1 the element sets of the algebras   *)
(* subgroups() returns are exactly the subgroups of G: each returned       *)
(* algebra is a Group on a subgroup of G, every subgroup of G is returned  *)
(* ({identity} and G included), and none is returned twice.                *)
(***************************************************************************)
Subgroup(G, T) ==
    /\ T \subseteq Range(G.elements)
    /\ G.identity \in T
    /\ \A x \in T : \A y \in T : Lookup(G, x, y) \in T
    /\ \A x \in T : InverseOf(G, x) \in T

C29_Subgroups ==
    (/\ pc = "called" /\ out.fn = "subgroups"
     /\ DistinctNames(alg.elements)) =>
        /\ out.err = NoError
        /\ \A i \in DOMAIN out.value :
              /\ out.value[i].kind \in GroupKinds
              /\ Subgroup(alg, Range(out.value[i].elements))
        /\ \A T \in SUBSET Range(alg.elements) :
              Subgroup(alg, T) => \E i \in DOMAIN out.value : Range(out.value[i].elements) = T
        /\ \A i \in DOMAIN out.value : \A j \in DOMAIN out.value :
              Range(out.value[i].elements) = Range(out.value[j].elements) => i = j

(***************************************************************************)
(* C28: for every Monoid, Group, Ring or Field and every element a,        *)
(* element_order(a) returns the smallest k >= 1 such that the k-fold       *)
(* product of a is the identity (1 for the identity, 4 for the generator   *)
(* of the cyclic group of order 4), and it leaves that value in the cache. *)
(***************************************************************************)
RECURSIVE Power(_, _, _)
Power(a, x, k) == IF k = 1 THEN x ELSE Lookup(a, Power(a, x, k - 1), x)

C28_ElementOrder ==
    (/\ pc = "called" /\ out.fn = "element_order"
     /\ DistinctNames(alg.elements)
     /\ out.element \in Range(alg.elements)) =>
        /\ out.err = NoError
        /\ out.value >= 1
        /\ Power(alg, out.element, out.value) = alg.identity
        /\ \A k \in 1..(out.value - 1) : Power(alg, out.element, k) # alg.identity
        /\ alg.element_orders[out.element] = out.value
        /\ (out.element = alg.identity) => out.value = 1
        /\ (call.args = cyclic_group_args(4) /\ out.element = "a") => out.value = 4

(***************************************************************************)
(* C27: when isomorphic(A, B) is called on two algebras of Monoid level or *)
(* above and of equal order n, every mapping that is tested maps A's       *)
(* identity to B's identity, so at most (n-1)! mappings are tested.        *)
(***************************************************************************)
RECURSIVE Factorial(_)
Factorial(n) == IF n <= 1 THEN 1 ELSE n * Factorial(n - 1)

C27_IdentityFixingMappings ==
    (/\ pc = "called" /\ out.fn = "isomorphic"
     /\ alg.kind \in MonoidKinds /\ out.other.kind \in MonoidKinds
     /\ len(alg.elements) = len(out.other.elements)) =>
        /\ \A mp \in out.tested : mp[alg.identity] = out.other.identity
        /\ Cardinality(out.tested) <= Factorial(len(alg.elements) - 1)

(***************************************************************************)
(* C30: when isomorphic(A, B) is called on two Rings and returns a mapping *)
(* f, f preserves addition and multiplication; the integers mod 4 and the  *)
(* ring with the same addition and the all-zero multiplication are         *)
(* reported as not isomorphic.                                             *)
(***************************************************************************)
C30_RingIsomorphism ==
    (/\ pc = "called" /\ out.fn = "isomorphic"
     /\ alg.kind \in {"Ring", "Field"} /\ out.other.kind \in {"Ring", "Field"}) =>
        /\ out.value.found =>
              \A x \in Range(alg.elements) : \A y \in Range(alg.elements) :
                  /\ out.value.mapping[op(alg, <<x, y>>)] =
                        op(out.other, <<out.value.mapping[x], out.value.mapping[y]>>)
                  /\ out.value.mapping[mult(alg, <<x, y>>)] =
                        mult(out.other, <<out.value.mapping[x], out.value.mapping[y]>>)
        /\ (/\ call.args = Args("R", GenNames("a", 4), AddTable(4), MultTable(4))
            /\ out.other.table = AddTable(4) /\ out.other.table2 = ConstTable(4, 0))
              => ~out.value.found

====
